---- MODULE Spec2Model ----
(***************************************************************************)
(* Layout generator of the virtual library (scripts/generate_layout_floors7 *)
(* .py): catalog loading and classification, subcategory selection, room   *)
(* planning, slot allocation with donor filling, primary locations and     *)
(* shelf tags.                                                             *)
(***************************************************************************)
EXTENDS Integers, Sequences, FiniteSets, TLC

\* ---------------------------------------------------------------- bounds
\* longest enumerated catalog (records of the input file)
MaxBooks == 3
\* the large catalogs put BOOKS_PER_ROOM + BigExtra books on one floor
BigExtra == 1
\* iterations of the donor loop followed while every donor pool is empty
MaxSpin == 3

\* ------------------------------------------------------------- geometry
BOOKS_PER_ROOM == 640
BOOKS_PER_SHELF == 32
SHELVES_PER_WALL == 5
WALLS_PER_ROOM == 4

\* ------------------------------------------------------- floors, chains
FLOORS == << "history_war", "literature_fiction", "crime_mystery_gothic",
             "scifi_fantasy", "children_ya", "poetry_drama",
             "nonfiction_thought" >>

FloorIds == { FLOORS[i] : i \in 1..Len(FLOORS) }

FILL_CHAIN == [ history_war          |-> << "literature_fiction" >>,
                literature_fiction   |-> << "history_war" >>,
                crime_mystery_gothic |-> << "literature_fiction", "scifi_fantasy" >>,
                scifi_fantasy        |-> << "literature_fiction" >>,
                children_ya          |-> << "literature_fiction" >>,
                poetry_drama         |-> << "literature_fiction" >>,
                nonfiction_thought   |-> << "history_war", "literature_fiction" >> ]

\* FLOOR_RULES, in rule order; a book's text is abstracted to the set of
\* rules one of whose patterns matches it (field "matches")
FLOOR_RULES == << "children_ya", "poetry_drama", "scifi_fantasy",
                  "crime_mystery_gothic", "history_war", "nonfiction_thought" >>

\* ------------------------------------------------------ strings as text
\* ord() of every character of the strings the model uses
Ord(s) ==
  CASE s = "history_war" -> <<104, 105, 115, 116, 111, 114, 121, 95, 119, 97, 114>>
    [] s = "literature_fiction" -> <<108, 105, 116, 101, 114, 97, 116, 117, 114, 101, 95, 102, 105, 99, 116, 105, 111, 110>>
    [] s = "crime_mystery_gothic" -> <<99, 114, 105, 109, 101, 95, 109, 121, 115, 116, 101, 114, 121, 95, 103, 111, 116, 104, 105, 99>>
    [] s = "scifi_fantasy" -> <<115, 99, 105, 102, 105, 95, 102, 97, 110, 116, 97, 115, 121>>
    [] s = "children_ya" -> <<99, 104, 105, 108, 100, 114, 101, 110, 95, 121, 97>>
    [] s = "poetry_drama" -> <<112, 111, 101, 116, 114, 121, 95, 100, 114, 97, 109, 97>>
    [] s = "nonfiction_thought" -> <<110, 111, 110, 102, 105, 99, 116, 105, 111, 110, 95, 116, 104, 111, 117, 103, 104, 116>>
    [] s = "donor:" -> <<100, 111, 110, 111, 114, 58>>
    [] s = "Other" -> <<79, 116, 104, 101, 114>>
    [] s = "Novels" -> <<78, 111, 118, 101, 108, 115>>
    [] s = "Short Stories" -> <<83, 104, 111, 114, 116, 32, 83, 116, 111, 114, 105, 101, 115>>
    [] s = "Best Books Ever Listings" -> <<66, 101, 115, 116, 32, 66, 111, 111, 107, 115, 32, 69, 118, 101, 114, 32, 76, 105, 115, 116, 105, 110, 103, 115>>
    [] s = "History - American" -> <<72, 105, 115, 116, 111, 114, 121, 32, 45, 32, 65, 109, 101, 114, 105, 99, 97, 110>>
    [] s = "History - European" -> <<72, 105, 115, 116, 111, 114, 121, 32, 45, 32, 69, 117, 114, 111, 112, 101, 97, 110>>
    [] s = "History - British" -> <<72, 105, 115, 116, 111, 114, 121, 32, 45, 32, 66, 114, 105, 116, 105, 115, 104>>
    [] s = "History - Warfare" -> <<72, 105, 115, 116, 111, 114, 121, 32, 45, 32, 87, 97, 114, 102, 97, 114, 101>>
    [] s = "History - Other" -> <<72, 105, 115, 116, 111, 114, 121, 32, 45, 32, 79, 116, 104, 101, 114>>
    [] s = "Detective Fiction" -> <<68, 101, 116, 101, 99, 116, 105, 118, 101, 32, 70, 105, 99, 116, 105, 111, 110>>
    [] s = "Gothic & Horror" -> <<71, 111, 116, 104, 105, 99, 32, 38, 32, 72, 111, 114, 114, 111, 114>>
    [] s = "Crime & Mystery" -> <<67, 114, 105, 109, 101, 32, 38, 32, 77, 121, 115, 116, 101, 114, 121>>
    [] s = "Science Fiction" -> <<83, 99, 105, 101, 110, 99, 101, 32, 70, 105, 99, 116, 105, 111, 110>>
    [] s = "Mythology & Folklore" -> <<77, 121, 116, 104, 111, 108, 111, 103, 121, 32, 38, 32, 70, 111, 108, 107, 108, 111, 114, 101>>
    [] s = "Fantasy" -> <<70, 97, 110, 116, 97, 115, 121>>
    [] s = "Fairy Tales" -> <<70, 97, 105, 114, 121, 32, 84, 97, 108, 101, 115>>
    [] s = "Animals & Nature" -> <<65, 110, 105, 109, 97, 108, 115, 32, 38, 32, 78, 97, 116, 117, 114, 101>>
    [] s = "Children" -> <<67, 104, 105, 108, 100, 114, 101, 110>>
    [] s = "Drama" -> <<68, 114, 97, 109, 97>>
    [] s = "Poetry" -> <<80, 111, 101, 116, 114, 121>>
    [] s = "Philosophy" -> <<80, 104, 105, 108, 111, 115, 111, 112, 104, 121>>
    [] s = "Religion" -> <<82, 101, 108, 105, 103, 105, 111, 110>>
    [] s = "Travel" -> <<84, 114, 97, 118, 101, 108>>
    [] s = "Biography" -> <<66, 105, 111, 103, 114, 97, 112, 104, 121>>
    [] s = "Science & Reference" -> <<83, 99, 105, 101, 110, 99, 101, 32, 38, 32, 82, 101, 102, 101, 114, 101, 110, 99, 101>>

\* str.lower() on the bookshelf names the model uses
Lower(s) ==
  CASE s = "Novels" -> "novels"
    [] s = "Short Stories" -> "short stories"
    [] s = "Best Books Ever Listings" -> "best books ever listings"
    [] OTHER -> s

RECURSIVE Digits(_)
\* str(x) for x >= 0, as character codes
Digits(x) ==
  IF x < 10 THEN << 48 + x >> ELSE Append(Digits(x \div 10), 48 + (x % 10))

\* --------------------------------------------------------- 32-bit hash
\* a 32-bit value is the pair << high 16 bits, low 16 bits >>
Half == 65536
FNV_OFFSET_HI == 33052
FNV_OFFSET_LO == 40389
\* 16777619 = 2^24 + 403
FNV_PRIME_LOW == 403

\* one bit of a ^ b, at the bit of weight p
XorBit(a, b, p) == (((a \div p) + (b \div p)) % 2) * p

\* a ^ b on 16-bit values
BitXor(a, b) ==
    XorBit(a, b, 1) + XorBit(a, b, 2) + XorBit(a, b, 4) + XorBit(a, b, 8)
  + XorBit(a, b, 16) + XorBit(a, b, 32) + XorBit(a, b, 64) + XorBit(a, b, 128)
  + XorBit(a, b, 256) + XorBit(a, b, 512) + XorBit(a, b, 1024)
  + XorBit(a, b, 2048) + XorBit(a, b, 4096) + XorBit(a, b, 8192)
  + XorBit(a, b, 16384) + XorBit(a, b, 32768)

\* h ^= ord(ch)
HashXor(h, c) == << BitXor(h[1], c \div Half), BitXor(h[2], c % Half) >>

\* h = (h * 16777619) & 0xFFFFFFFF
HashMul(h) ==
  LET p == h[2] * FNV_PRIME_LOW
  IN  << ((p \div Half) + (h[1] * FNV_PRIME_LOW) + ((h[2] % 256) * 256)) % Half,
         p % Half >>

RECURSIVE HashChars(_, _, _, _)
\* the loop "for ch in s" over the characters s[lo..hi], starting from h;
\* the first half of the range is finished before the second starts
HashChars(h, s, lo, hi) ==
  IF lo > hi THEN h
  ELSE IF lo = hi THEN HashMul(HashXor(h, s[lo]))
  ELSE LET mid == (lo + hi) \div 2
           left == HashChars(h, s, lo, mid)
       IN  IF Len(left) = 2 THEN HashChars(left, s, mid + 1, hi) ELSE left

\* h after the characters of f"{seed}:"
SeedHash(seed) ==
  HashChars(<< FNV_OFFSET_HI, FNV_OFFSET_LO >>, seed \o << 58 >>, 1, Len(seed) + 1)

\* h after the digits of x, continuing from the hash of f"{seed}:"
KeyFrom(base, x) == HashChars(base, Digits(x), 1, Len(Digits(x)))

\* key(x) of stable_shuffle: the hash of f"{seed}:{x}"
key(x, seed) == KeyFrom(SeedHash(seed), x)

KeyLess(a, b) == a[1] < b[1] \/ (a[1] = b[1] /\ a[2] < b[2])

RECURSIVE KeysOf(_, _, _, _)
\* << key(ids[lo]), ..., key(ids[hi]) >>
KeysOf(base, ids, lo, hi) ==
  IF lo > hi THEN << >>
  ELSE IF lo = hi THEN << KeyFrom(base, ids[lo]) >>
  ELSE LET mid == (lo + hi) \div 2
       IN  KeysOf(base, ids, lo, mid) \o KeysOf(base, ids, mid + 1, hi)

\* the element at position i sorts before the one at position j: smaller
\* key, or the same key and earlier in the input (the sort is stable)
Before(k, i, j) == KeyLess(k[i], k[j]) \/ (k[i] = k[j] /\ i < j)

\* position of the input's i-th element in the sorted result
RankOf(k, i) == Cardinality({ j \in 1..Len(k) : Before(k, j, i) }) + 1

RECURSIVE RanksOf(_, _, _)
\* << RankOf(k, lo), ..., RankOf(k, hi) >>
RanksOf(k, lo, hi) ==
  IF lo > hi THEN << >>
  ELSE IF lo = hi THEN << RankOf(k, lo) >>
  ELSE LET mid == (lo + hi) \div 2
       IN  RanksOf(k, lo, mid) \o RanksOf(k, mid + 1, hi)

RECURSIVE SortedRange(_, _, _, _)
\* the sorted result's entries lo..hi, given every position's rank
SortedRange(ids, rank, lo, hi) ==
  IF lo > hi THEN << >>
  ELSE IF lo = hi THEN << ids[CHOOSE i \in 1..Len(ids) : rank[i] = lo] >>
  ELSE LET mid == (lo + hi) \div 2
       IN  SortedRange(ids, rank, lo, mid) \o SortedRange(ids, rank, mid + 1, hi)

\* sorted(ids, key=key): the seed's hash, then every key, then the order
stable_shuffle(ids, seed) ==
  LET base == SeedHash(seed)
      k == KeysOf(base, ids, 1, Len(ids))
      rank == RanksOf(k, 1, Len(ids))
  IN  IF Len(base) = 2 /\ Len(k) = Len(ids) /\ Len(rank) = Len(ids)
      THEN SortedRange(ids, rank, 1, Len(ids))
      ELSE << >>

\* slot -> (roomOffset, wall, shelf, vol)
\* a decomposition that counts shelves before walls
slot_to_location_shelf_major(slot) ==
  LET room_offset == slot \div BOOKS_PER_ROOM
      in_room == slot % BOOKS_PER_ROOM
      shelf == in_room \div (BOOKS_PER_SHELF * WALLS_PER_ROOM)
      in_shelf == in_room % (BOOKS_PER_SHELF * WALLS_PER_ROOM)
      wall == in_shelf \div BOOKS_PER_SHELF
      vol == in_shelf % BOOKS_PER_SHELF
  IN  << room_offset, wall, shelf, vol >>

slot_to_location(slot) ==
  LET room_offset == slot \div BOOKS_PER_ROOM
      in_room == slot % BOOKS_PER_ROOM
      wall == in_room \div (BOOKS_PER_SHELF * SHELVES_PER_WALL)
      in_wall == in_room % (BOOKS_PER_SHELF * SHELVES_PER_WALL)
      shelf == in_wall \div BOOKS_PER_SHELF
      vol == in_wall % BOOKS_PER_SHELF
  IN  << room_offset, wall, shelf, vol >>


\* ------------------------------------------------------------- catalog
\* A record of the input file.  Its text is abstracted to what the
\* classifier reads: the FLOOR_RULES that match it, its bookshelves (a
\* name, written with or without the "Category:" prefix; "" is a blank
\* entry) and the keywords its subjects contain.
Kinds ==
  << [ matches |-> { "history_war" }, bookshelves |-> << >>,
       subjects |-> { "war" } ],
     [ matches |-> { }, bookshelves |-> << >>, subjects |-> { } ],
     [ matches |-> { },
       bookshelves |-> << [ cat |-> TRUE, name |-> "Short Stories" ] >>,
       subjects |-> { } ],
     [ matches |-> { "scifi_fantasy" },
       bookshelves |-> << [ cat |-> FALSE, name |-> "Novels" ] >>,
       subjects |-> { "space" } ],
     [ matches |-> { "children_ya", "poetry_drama" },
       bookshelves |-> << [ cat |-> FALSE, name |-> "" ],
                          [ cat |-> TRUE, name |-> "Fairy Tales" ] >>,
       subjects |-> { "fairy" } ] >>

\* the record of kind k with the given id.  idform is how the record
\* writes its id: "int" (the number id), "missing" (no id, or null) or
\* "text" (a string that is no number); id is 0 where it is not a number
Book(id, k) ==
  [ id |-> id, idform |-> "int", matches |-> Kinds[k].matches,
    bookshelves |-> Kinds[k].bookshelves, subjects |-> Kinds[k].subjects ]

\* records without a usable id: id 0, a negative id, no id, a non-numeric id
BadRecords ==
  << Book(0, 1), Book(-1, 1),
     [ Book(0, 1) EXCEPT !.idform = "missing" ],
     [ Book(0, 1) EXCEPT !.idform = "text" ] >>

\* enumerated catalogs: up to MaxBooks records, listed by kind; the record
\* at position i has id i, or is one of BadRecords (kinds 0, -1, -2, -3)
SmallCatalogs ==
  UNION { { [ i \in 1..n |-> IF ks[i] <= 0 THEN BadRecords[1 - ks[i]]
                             ELSE Book(i, ks[i]) ]
            : ks \in { q \in [ 1..n -> (1 - Len(BadRecords))..Len(Kinds) ] :
                         \A i \in 1..(n - 1) : q[i] <= q[i + 1] } }
          : n \in 0..MaxBooks }

\* a floor with more books than one room holds, and one book elsewhere
BigCount == BOOKS_PER_ROOM + BigExtra
BigHistory ==
  [ i \in 1..(BigCount + 1) |->
      IF i > BigCount THEN Book(i, 2)
      ELSE [ Book(i, 1) EXCEPT !.subjects = IF i % 3 = 0 THEN { "american" }
                                                         ELSE { "war" } ] ]
BigLiterature ==
  [ i \in 1..(BigCount + 1) |->
      IF i > BigCount THEN Book(i, 1)
      ELSE IF i % 3 = 0 THEN Book(i, 2) ELSE Book(i, 3) ]

BigCatalogs == { BigHistory, BigLiterature }

Catalogs == SmallCatalogs \cup BigCatalogs

\* --top-subs and --min-sub-books
TopSubsArgs == { 0, 1, 2 }
MinSubBooksArgs == { 1, 2 }

\* the runs explored: every small catalog under every argument pair; the
\* big catalogs, whose label counts are far above either threshold, under
\* --min-sub-books 2 and a --top-subs of 1 or 2
Runs ==
  { r \in Catalogs \X TopSubsArgs \X MinSubBooksArgs :
      r[1] \in BigCatalogs => (r[2] >= 1 /\ r[3] = 2) }

\* ---------------------------------------------------------- classifier
\* norm_bookshelf: strip, drop a leading "Category:", collapse whitespace
norm_bookshelf(bs) == bs.name

classify_floor(book) ==
  IF \E i \in 1..Len(FLOOR_RULES) : FLOOR_RULES[i] \in book.matches
  THEN FLOOR_RULES[CHOOSE i \in 1..Len(FLOOR_RULES) :
                     /\ FLOOR_RULES[i] \in book.matches
                     /\ \A j \in 1..(i - 1) : FLOOR_RULES[j] \notin book.matches]
  ELSE "literature_fiction"

\* the fallback label from the subject keywords, per floor
SubjectBucket(subj, floor_id) ==
  CASE floor_id = "history_war" ->
         IF "american" \in subj THEN "History - American"
         ELSE IF "europe" \in subj THEN "History - European"
         ELSE IF "brit" \in subj THEN "History - British"
         ELSE IF "war" \in subj \/ "military" \in subj THEN "History - Warfare"
         ELSE "History - Other"
    [] floor_id = "crime_mystery_gothic" ->
         IF "detective" \in subj THEN "Detective Fiction"
         ELSE IF "gothic" \in subj \/ "horror" \in subj THEN "Gothic & Horror"
         ELSE "Crime & Mystery"
    [] floor_id = "scifi_fantasy" ->
         IF "science fiction" \in subj \/ "space" \in subj \/ "time travel" \in subj
         THEN "Science Fiction"
         ELSE IF "myth" \in subj \/ "legend" \in subj \/ "folklore" \in subj
         THEN "Mythology & Folklore"
         ELSE "Fantasy"
    [] floor_id = "children_ya" ->
         IF "fairy" \in subj THEN "Fairy Tales"
         ELSE IF "animals" \in subj \/ "birds" \in subj THEN "Animals & Nature"
         ELSE "Children"
    [] floor_id = "poetry_drama" ->
         IF "plays" \in subj \/ "drama" \in subj \/ "theatre" \in subj
         THEN "Drama" ELSE "Poetry"
    [] floor_id = "nonfiction_thought" ->
         IF "philosophy" \in subj \/ "ethics" \in subj THEN "Philosophy"
         ELSE IF "religion" \in subj \/ "theology" \in subj THEN "Religion"
         ELSE IF "travel" \in subj \/ "geography" \in subj THEN "Travel"
         ELSE IF "biograph" \in subj \/ "memoir" \in subj THEN "Biography"
         ELSE "Science & Reference"
    [] OTHER -> "Other"

choose_subcategory(book, floor_id) ==
  LET named == SelectSeq(book.bookshelves, LAMBDA x : x.name # "")
      shelves == [ i \in 1..Len(named) |-> norm_bookshelf(named[i]) ]
      Broad(bs) == /\ Lower(bs) \in { "novels", "short stories" }
                   /\ floor_id # "literature_fiction"
  IN  IF \E i \in 1..Len(shelves) : ~Broad(shelves[i])
      THEN shelves[CHOOSE i \in 1..Len(shelves) :
                     /\ ~Broad(shelves[i])
                     /\ \A j \in 1..(i - 1) : Broad(shelves[j])]
      ELSE SubjectBucket(book.subjects, floor_id)

\* ------------------------------------------------------------ helpers
Max(a, b) == IF a >= b THEN a ELSE b

\* math.ceil(a / b) for a >= 0, b > 0
Ceil(a, b) == IF a % b = 0 THEN a \div b ELSE (a \div b) + 1

\* a < b on strings, by code points
LabelLess(a, b) ==
  LET A == Ord(a)
      B == Ord(b)
  IN  \E i \in 1..(Len(A) + 1) :
        /\ i <= Len(B)
        /\ \A j \in 1..(i - 1) : A[j] = B[j]
        /\ (i > Len(A) \/ A[i] < B[i])

\* value of a Counter at a label it may not hold
CountOf(c, sub) == IF sub \in DOMAIN c THEN c[sub] ELSE 0

\* c[sub] += 1
CountUp(c, sub) ==
  IF sub \in DOMAIN c THEN [ c EXCEPT ![sub] = @ + 1 ] ELSE c @@ (sub :> 1)

\* f"RELATED:{donor}"
RelatedTag(donor) == "RELATED:" \o donor
IsRelated(sub) == \E d \in FloorIds : sub = RelatedTag(d)

\* prev_sub before the first volume of a shelf
None == "<None>"

\* ---------------------------------------------------------------- state
VARIABLES
  args,                \* [top_subs, min_sub_books]
  catalog,             \* the records of the input file, in file order
  pc,                  \* the stage main() is at
  line,                \* number of records read
  floor_books, sub_by_book, floor_by_book, sub_counts_by_floor,
  official_subs,
  floors_out, floor_stats, rooms_total,
  donor_pool,
  fl,                  \* position in FLOORS of the floor being laid out / tagged
  bookIdBySlot, subIdBySlot,
  need, cursor, donor_cursor,
  slots_out, primary_loc,
  room_tags,
  call,                \* a call of a pure function and its result
  theme_proc,          \* generate_theme_map: the running process, if any
  theme_disk,          \* generate_theme_map: the files of its output directory
  meta_proc,           \* generate_book_meta_map: the running process, if any
  meta_disk            \* generate_book_meta_map: the files of its output directory

vars == << args, catalog, pc, line, floor_books, sub_by_book, floor_by_book,
           sub_counts_by_floor, official_subs, floors_out, floor_stats,
           rooms_total, donor_pool, fl, bookIdBySlot, subIdBySlot, need,
           cursor, donor_cursor, slots_out, primary_loc, room_tags, call,
           theme_proc, theme_disk, meta_proc, meta_disk >>

loaded == << floor_books, sub_by_book, floor_by_book, sub_counts_by_floor >>
planned == << official_subs, floors_out, floor_stats, rooms_total, donor_pool >>
working == << bookIdBySlot, subIdBySlot, need, cursor, donor_cursor >>
outputs == << slots_out, primary_loc, room_tags >>

fetchers == << theme_proc, theme_disk, meta_proc, meta_disk >>

NoCall == [ op |-> "none" ]

\* no process of a fetch script runs
Stopped == [ pc |-> "stopped", crashes |-> 0 ]

\* an output directory before the first run: no checkpoint.json, no map,
\* no stats
ThemeDiskEmpty ==
  [ checkpoint |-> [ exists |-> FALSE, next |-> 0, done |-> 0, page |-> 0 ],
    map |-> [ exists |-> FALSE, theme_by_id |-> << >> ],
    stats |-> [ exists |-> FALSE, done |-> 0, page |-> 0 ] ]

\* an output directory before the first run: no checkpoint.json, no
\* stats, no seen_ids.json, no bookMetaById.v1.jsonl
MetaDiskEmpty ==
  [ checkpoint |-> [ exists |-> FALSE, next |-> 0, done |-> 0, page |-> 0 ],
    stats |-> [ exists |-> FALSE, done |-> 0, page |-> 0 ],
    seen |-> [ exists |-> FALSE, ids |-> { } ],
    jsonl |-> << >> ]

\* the fetch scripts have not run
FetchersIdle ==
  /\ theme_proc = Stopped
  /\ theme_disk = ThemeDiskEmpty
  /\ meta_proc = Stopped
  /\ meta_disk = MetaDiskEmpty

Start(c, a) ==
  /\ args = a
  /\ catalog = c
  /\ line = 0
  /\ floor_books = [ f \in FloorIds |-> << >> ]
  /\ sub_by_book = << >>
  /\ floor_by_book = << >>
  /\ sub_counts_by_floor = [ f \in FloorIds |-> << >> ]
  /\ official_subs = << >>
  /\ floors_out = << >>
  /\ floor_stats = << >>
  /\ rooms_total = 0
  /\ donor_pool = << >>
  /\ fl = 1
  /\ bookIdBySlot = << >>
  /\ subIdBySlot = << >>
  /\ need = 0
  /\ cursor = 0
  /\ donor_cursor = << >>
  /\ slots_out = << >>
  /\ primary_loc = << >>
  /\ room_tags = << >>

Init ==
  /\ pc = "load"
  /\ call = NoCall
  /\ FetchersIdle
  /\ \E r \in Runs : Start(r[1], [ top_subs |-> r[2], min_sub_books |-> r[3] ])

\* --------------------------------------------------- 1) load + classify
\* int(book.get("id") or 0), for an id that int() accepts
IntOf(book) == IF book.idform = "missing" THEN 0 ELSE book.id

\* int() raises ValueError on the id
IntRaises(book) == book.idform = "text"

\* one record of the input file; an exception from int() ends the run
LoadRecord ==
  /\ pc = "load"
  /\ line < Len(catalog)
  /\ line' = line + 1
  /\ LET book == catalog[line + 1]
         bid == IntOf(book)
         floor_id == classify_floor(book)
         sub == choose_subcategory(book, floor_id)
     IN  IF IntRaises(book)
         THEN pc' = "abort" /\ UNCHANGED loaded
         ELSE IF bid <= 0
         THEN pc' = pc /\ UNCHANGED loaded
         ELSE /\ pc' = pc
              /\ floor_books' = [ floor_books EXCEPT ![floor_id] = Append(@, bid) ]
              /\ floor_by_book' = IF bid \in DOMAIN floor_by_book
                                  THEN [ floor_by_book EXCEPT ![bid] = floor_id ]
                                  ELSE floor_by_book @@ (bid :> floor_id)
              /\ sub_by_book' = IF bid \in DOMAIN sub_by_book
                                THEN [ sub_by_book EXCEPT ![bid] = sub ]
                                ELSE sub_by_book @@ (bid :> sub)
              /\ sub_counts_by_floor' =
                   [ sub_counts_by_floor EXCEPT ![floor_id] = CountUp(@, sub) ]
  /\ UNCHANGED << args, catalog, planned, fl, working, outputs, call, fetchers >>

\* ------------------------------------------ 2) official subcategories
\* items.sort(key=lambda kv: (-kv[1], kv[0]))
ItemBefore(c, a, b) == c[a] > c[b] \/ (c[a] = c[b] /\ LabelLess(a, b))

RECURSIVE SortItems(_, _)
SortItems(c, S) ==
  IF S = { } THEN << >>
  ELSE LET m == CHOOSE a \in S : \A b \in S \ { a } : ItemBefore(c, a, b)
       IN  << m >> \o SortItems(c, S \ { m })

RECURSIVE TakeSubs(_, _, _, _, _)
\* the loop over the sorted items from position i on, subs chosen so far
TakeSubs(c, items, i, subs, a) ==
  IF i > Len(items) THEN subs
  ELSE IF c[items[i]] < a.min_sub_books THEN TakeSubs(c, items, i + 1, subs, a)
  ELSE IF Len(subs) + 1 >= a.top_subs THEN Append(subs, items[i])
  ELSE TakeSubs(c, items, i + 1, Append(subs, items[i]), a)

OfficialSubs(c, a) == TakeSubs(c, SortItems(c, DOMAIN c), 1, << >>, a)

DecideSubs ==
  /\ pc = "load"
  /\ line = Len(catalog)
  /\ official_subs' = [ f \in FloorIds |-> OfficialSubs(sub_counts_by_floor[f], args) ]
  /\ pc' = "rooms"
  /\ UNCHANGED << args, catalog, line, loaded, floors_out, floor_stats,
                  rooms_total, donor_pool, fl, working, outputs, call, fetchers >>

\* --------------------------------------------------- 3) rooms per floor
\* the "subcategories" of a floor record: the official ones, then Other
SubcategoriesOut(fid, count) ==
  LET subs == official_subs[fid]
      c == sub_counts_by_floor[fid]
      official == [ i \in 1..Len(subs) |->
                      [ id |-> subs[i], label |-> subs[i], count |-> CountOf(c, subs[i]) ] ]
      RECURSIVE Sum(_)
      Sum(i) == IF i = 0 THEN 0 ELSE CountOf(c, subs[i]) + Sum(i - 1)
  IN  official \o << [ id |-> "Other", label |-> "Other",
                       count |-> count - Sum(Len(subs)) ] >>

\* a room count that rounds down instead of up
RoomsForFloorDiv(count) == Max(1, count \div BOOKS_PER_ROOM)

\* rooms = max(1, math.ceil(count / BOOKS_PER_ROOM))
RoomsFor(count) == Max(1, Ceil(count, BOOKS_PER_ROOM))

FloorRecord(fid, room_start) ==
  LET count == Len(floor_books[fid])
      rooms == RoomsFor(count)
  IN  [ id |-> fid, roomStart |-> room_start, roomCount |-> rooms,
        bookCount |-> count, capacity |-> rooms * BOOKS_PER_ROOM,
        fillFrom |-> FILL_CHAIN[fid],
        subcategories |-> SubcategoriesOut(fid, count) ]

\* a counter that advances one room short
NextRoomStartShort(room_start, rooms) == room_start + rooms - 1

\* room_start += rooms
NextRoomStart(room_start, rooms) == room_start + rooms

RECURSIVE PlanFrom(_, _, _)
\* the loop over FLOORS from position i on: the floor records written so
\* far and the running room counter
PlanFrom(i, out, room_start) ==
  IF i > Len(FLOORS) THEN [ floors |-> out, room_start |-> room_start ]
  ELSE LET rec == FloorRecord(FLOORS[i], room_start)
       IN  PlanFrom(i + 1, Append(out, rec), NextRoomStart(room_start, rec.roomCount))

PlanRooms ==
  /\ pc = "rooms"
  /\ LET plan == PlanFrom(1, << >>, 0)
     IN  /\ floors_out' = plan.floors
         /\ rooms_total' = plan.room_start
         /\ floor_stats' =
              [ f \in FloorIds |->
                  LET rec == plan.floors[CHOOSE i \in 1..Len(FLOORS) : FLOORS[i] = f]
                  IN  [ roomStart |-> rec.roomStart, roomCount |-> rec.roomCount,
                        capacity |-> rec.capacity ] ]
  /\ pc' = "pools"
  /\ UNCHANGED << args, catalog, line, loaded, official_subs, donor_pool, fl,
                  working, outputs, call, fetchers >>

\* ------------------------------------------------ 4) slots per floor
\* seed=f"donor:{fid}"
DonorSeed(fid) == Ord("donor:") \o Ord(fid)
\* seed=f"{fid}:{sub}"
BlockSeed(fid, sub) == Ord(fid) \o << 58 >> \o Ord(sub)

DonorPools ==
  /\ pc = "pools"
  /\ donor_pool' = [ f \in FloorIds |-> stable_shuffle(floor_books[f], DonorSeed(f)) ]
  /\ fl' = 1
  /\ pc' = "blocks"
  /\ UNCHANGED << args, catalog, line, loaded, official_subs, floors_out,
                  floor_stats, rooms_total, working, outputs, call, fetchers >>

\* buckets[sub]: the floor's books whose subcategory, or "Other" when it
\* is not official, is sub; in floor_books order
Bucket(fid, sub) ==
  LET subs == { official_subs[fid][i] : i \in 1..Len(official_subs[fid]) }
      BucketOf(bid) == IF sub_by_book[bid] \in subs THEN sub_by_book[bid] ELSE "Other"
  IN  SelectSeq(floor_books[fid], LAMBDA bid : BucketOf(bid) = sub)

RECURSIVE BlocksFrom(_, _, _, _, _)
\* the loop over ordered_subs from position i on
BlocksFrom(fid, ordered_subs, i, ids_out, subs_out) ==
  IF i > Len(ordered_subs) THEN [ ids |-> ids_out, subs |-> subs_out ]
  ELSE LET sub == ordered_subs[i]
           ids == stable_shuffle(Bucket(fid, sub), BlockSeed(fid, sub))
       IN  BlocksFrom(fid, ordered_subs, i + 1, ids_out \o ids,
                      subs_out \o [ j \in 1..Len(ids) |-> sub ])

\* chain = FILL_CHAIN.get(fid, []), with the default when it is empty
ChainOf(fid) ==
  IF FILL_CHAIN[fid] # << >> THEN FILL_CHAIN[fid]
  ELSE IF fid # "literature_fiction" THEN << "literature_fiction" >>
  ELSE << "history_war" >>

BuildBlocks ==
  /\ pc = "blocks"
  /\ LET fid == FLOORS[fl]
         cap == floor_stats[fid].capacity
         b == BlocksFrom(fid, official_subs[fid] \o << "Other" >>, 1, << >>, << >>)
     IN  /\ bookIdBySlot' = b.ids
         /\ subIdBySlot' = b.subs
         /\ IF Len(b.ids) < cap
            THEN /\ need' = cap - Len(b.ids)
                 /\ pc' = "fill"
            ELSE /\ need' = 0
                 /\ pc' = "finish"
  /\ cursor' = 0
  /\ donor_cursor' = << >>
  /\ UNCHANGED << args, catalog, line, loaded, planned, fl, outputs, call, fetchers >>

\* an iteration that indexes the pool by the chain cursor instead of the
\* donor's own cursor
FillStepSharedCursor(st, chain) ==
  IF st.need <= 0 THEN st
  ELSE LET donor == chain[(st.cursor % Len(chain)) + 1]
           pool == donor_pool[donor]
           idx == st.cursor % Len(pool)
       IN  IF pool = << >>
           THEN [ st EXCEPT !.cursor = @ + 1 ]
           ELSE [ need |-> st.need - 1,
                  cursor |-> st.cursor + 1,
                  donor_cursor |-> st.donor_cursor,
                  fill_ids |-> Append(st.fill_ids, pool[idx + 1]),
                  fill_subs |-> Append(st.fill_subs, RelatedTag(donor)) ]

\* an iteration that tags the slot with the first donor of the chain
FillStepFirstDonorTag(st, chain) ==
  IF st.need <= 0 THEN st
  ELSE LET donor == chain[(st.cursor % Len(chain)) + 1]
           pool == donor_pool[donor]
           dc == IF donor \in DOMAIN st.donor_cursor THEN st.donor_cursor[donor] ELSE 0
           idx == dc % Len(pool)
       IN  IF pool = << >>
           THEN [ st EXCEPT !.cursor = @ + 1 ]
           ELSE [ need |-> st.need - 1,
                  cursor |-> st.cursor + 1,
                  donor_cursor |-> IF donor \in DOMAIN st.donor_cursor
                                   THEN [ st.donor_cursor EXCEPT ![donor] = dc + 1 ]
                                   ELSE st.donor_cursor @@ (donor :> dc + 1),
                  fill_ids |-> Append(st.fill_ids, pool[idx + 1]),
                  fill_subs |-> Append(st.fill_subs, RelatedTag(chain[1])) ]

\* one iteration of "while need > 0"
FillStep(st, chain) ==
  IF st.need <= 0 THEN st
  ELSE LET donor == chain[(st.cursor % Len(chain)) + 1]
           pool == donor_pool[donor]
           dc == IF donor \in DOMAIN st.donor_cursor THEN st.donor_cursor[donor] ELSE 0
           idx == dc % Len(pool)
       IN  IF pool = << >>
           THEN [ st EXCEPT !.cursor = @ + 1 ]
           ELSE [ need |-> st.need - 1,
                  cursor |-> st.cursor + 1,
                  donor_cursor |-> IF donor \in DOMAIN st.donor_cursor
                                   THEN [ st.donor_cursor EXCEPT ![donor] = dc + 1 ]
                                   ELSE st.donor_cursor @@ (donor :> dc + 1),
                  fill_ids |-> Append(st.fill_ids, pool[idx + 1]),
                  fill_subs |-> Append(st.fill_subs, RelatedTag(donor)) ]

RECURSIVE FillLoop(_, _, _)
\* n iterations of the loop, or fewer when need reaches 0 first: the first
\* half of them, then the rest continuing from the state they leave;
\* fill_ids and fill_subs are what these iterations append
FillLoop(st, chain, n) ==
  IF n <= 0 \/ st.need <= 0 THEN st
  ELSE IF n = 1 THEN FillStep(st, chain)
  ELSE LET half == FillLoop(st, chain, n \div 2)
           rest == FillLoop([ half EXCEPT !.fill_ids = << >>, !.fill_subs = << >> ],
                            chain, n - (n \div 2))
       IN  IF half.need <= 0 THEN half
           ELSE [ rest EXCEPT !.fill_ids = half.fill_ids \o @,
                              !.fill_subs = half.fill_subs \o @ ]

SomeDonor(chain) == \E i \in 1..Len(chain) : donor_pool[chain[i]] # << >>

\* the loop until need = 0: with a donor that has books, every Len(chain)
\* iterations fill at least one slot
FillSlack ==
  /\ pc = "fill"
  /\ need > 0
  /\ LET chain == ChainOf(FLOORS[fl])
         st == FillLoop([ need |-> need, cursor |-> cursor,
                          donor_cursor |-> donor_cursor,
                          fill_ids |-> << >>, fill_subs |-> << >> ],
                        chain, need * Len(chain))
     IN  /\ SomeDonor(chain)
         /\ need' = st.need
         /\ cursor' = st.cursor
         /\ donor_cursor' = st.donor_cursor
         /\ bookIdBySlot' = bookIdBySlot \o st.fill_ids
         /\ subIdBySlot' = subIdBySlot \o st.fill_subs
  /\ pc' = "finish"
  /\ UNCHANGED << args, catalog, line, loaded, planned, fl, outputs, call, fetchers >>

\* one iteration of the loop when no donor of the chain has a book: the
\* pool is empty, "continue"
FillSpin ==
  /\ pc = "fill"
  /\ need > 0
  /\ ~SomeDonor(ChainOf(FLOORS[fl]))
  /\ cursor < MaxSpin
  /\ LET st == FillStep([ need |-> need, cursor |-> cursor,
                          donor_cursor |-> donor_cursor,
                          fill_ids |-> << >>, fill_subs |-> << >> ],
                        ChainOf(FLOORS[fl]))
     IN  /\ need' = st.need
         /\ cursor' = st.cursor
         /\ donor_cursor' = st.donor_cursor
  /\ UNCHANGED << args, catalog, pc, line, loaded, planned, fl, bookIdBySlot,
                  subIdBySlot, outputs, call, fetchers >>

\* the entry of a book first seen at the given slot of floor fid
PrimaryEntry(fid, slot, sub) ==
  LET loc == slot_to_location(slot)
  IN  [ room |-> floor_stats[fid].roomStart + loc[1], wall |-> loc[2],
        shelf |-> loc[3], volume |-> loc[4], floorId |-> fid, subId |-> sub ]

\* a table where the last occurrence wins
RecordLocationLast(pl, k, entry) ==
  [ x \in DOMAIN pl \cup { k } |-> IF x = k THEN entry ELSE pl[x] ]

\* if str(bid) in primary_loc: continue; else primary_loc[str(bid)] = entry
RecordLocation(pl, k, entry) ==
  IF k \in DOMAIN pl THEN pl ELSE pl @@ (k :> entry)

RECURSIVE PrimaryFrom(_, _, _, _, _, _)
\* the loop "for slot, bid in enumerate(bookIdBySlot)" over slots lo..hi;
\* the first half of the range is finished before the second starts
PrimaryFrom(pl, fid, ids, subs, lo, hi) ==
  IF lo > hi THEN pl
  ELSE IF lo = hi
  THEN RecordLocation(pl, Digits(ids[lo + 1]), PrimaryEntry(fid, lo, subs[lo + 1]))
  ELSE LET mid == (lo + hi) \div 2
           left == PrimaryFrom(pl, fid, ids, subs, lo, mid)
       IN  IF DOMAIN left # { } THEN PrimaryFrom(left, fid, ids, subs, mid + 1, hi)
           ELSE left

\* x[:cap]
Truncate(x, cap) == IF Len(x) > cap THEN SubSeq(x, 1, cap) ELSE x

\* truncate, store the floor's slots, record primary locations
FinishFloor ==
  /\ pc = "finish"
  /\ LET fid == FLOORS[fl]
         cap == floor_stats[fid].capacity
     IN  /\ bookIdBySlot' = Truncate(bookIdBySlot, cap)
         /\ subIdBySlot' = Truncate(subIdBySlot, cap)
         /\ slots_out' = slots_out @@
              (fid :> [ floorId |-> fid, capacity |-> cap,
                        bookIdBySlot |-> bookIdBySlot',
                        subIdBySlot |-> subIdBySlot' ])
         /\ primary_loc' = PrimaryFrom(primary_loc, fid, bookIdBySlot',
                                       subIdBySlot', 0, Len(bookIdBySlot') - 1)
  /\ IF fl < Len(FLOORS)
     THEN fl' = fl + 1 /\ pc' = "blocks"
     ELSE fl' = 1 /\ pc' = "tags"
  /\ UNCHANGED << args, catalog, line, loaded, planned, need, cursor,
                  donor_cursor, room_tags, call, fetchers >>

\* ------------------------------------------------------ 5) shelf tags
\* a tag at every volume
EmitTagAlways(vol, sub, prev_sub) == TRUE

\* a tag at the start of each shelf only
EmitTagShelfStart(vol, sub, prev_sub) == vol = 0

\* if vol == 0 or sub != prev_sub
EmitTag(vol, sub, prev_sub) == vol = 0 \/ sub # prev_sub

\* slot of a volume, from the room's first slot
SlotOf(room_base_slot, wall, shelf, vol) ==
  room_base_slot + wall * (BOOKS_PER_SHELF * SHELVES_PER_WALL)
                 + shelf * BOOKS_PER_SHELF + vol

RECURSIVE ShelfTags(_, _, _, _, _, _)
\* the tags the scan of volumes lo..hi of a shelf appends; prev_sub is None
\* at volume 0 and the previous volume's subcategory afterwards
ShelfTags(sub_ids, room_base_slot, wall, shelf, lo, hi) ==
  IF lo > hi THEN << >>
  ELSE IF lo = hi
  THEN LET slot == SlotOf(room_base_slot, wall, shelf, lo)
           sub == sub_ids[slot + 1]
           prev_sub == IF lo = 0 THEN None ELSE sub_ids[slot]
       IN  IF EmitTag(lo, sub, prev_sub)
           THEN << [ wall |-> wall, shelf |-> shelf, volStart |-> lo,
                     subId |-> sub, label |-> sub ] >>
           ELSE << >>
  ELSE LET mid == (lo + hi) \div 2
       IN  ShelfTags(sub_ids, room_base_slot, wall, shelf, lo, mid)
             \o ShelfTags(sub_ids, room_base_slot, wall, shelf, mid + 1, hi)

RECURSIVE RoomTags(_, _, _, _)
\* the tags of a room's shelves lo..hi, counted wall by wall
RoomTags(sub_ids, room_base_slot, lo, hi) ==
  IF lo > hi THEN << >>
  ELSE IF lo = hi
  THEN ShelfTags(sub_ids, room_base_slot, lo \div SHELVES_PER_WALL,
                 lo % SHELVES_PER_WALL, 0, BOOKS_PER_SHELF - 1)
  ELSE LET mid == (lo + hi) \div 2
       IN  RoomTags(sub_ids, room_base_slot, lo, mid)
             \o RoomTags(sub_ids, room_base_slot, mid + 1, hi)

\* the rooms of one floor
TagFloor ==
  /\ pc = "tags"
  /\ LET fid == FLOORS[fl]
         floor_room_start == floor_stats[fid].roomStart
         rooms == floor_stats[fid].roomCount
         sub_ids == slots_out[fid].subIdBySlot
     IN  room_tags' = room_tags @@
           [ global_room \in floor_room_start..(floor_room_start + rooms - 1) |->
               RoomTags(sub_ids, (global_room - floor_room_start) * BOOKS_PER_ROOM,
                        0, WALLS_PER_ROOM * SHELVES_PER_WALL - 1) ]
  /\ IF fl < Len(FLOORS)
     THEN fl' = fl + 1 /\ pc' = pc
     ELSE fl' = fl /\ pc' = "write"
  /\ UNCHANGED << args, catalog, line, loaded, planned, working, slots_out,
                  primary_loc, call, fetchers >>

\* the room files, floors7, slots7 and primaryLocationByBookId are written
WriteOutputs ==
  /\ pc = "write"
  /\ pc' = "done"
  /\ UNCHANGED << args, catalog, line, loaded, planned, fl, working, outputs, call, fetchers >>

Next ==
  \/ LoadRecord
  \/ DecideSubs
  \/ PlanRooms
  \/ DonorPools
  \/ BuildBlocks
  \/ FillSlack
  \/ FillSpin
  \/ FinishFloor
  \/ TagFloor
  \/ WriteOutputs

Spec == Init /\ [][Next]_vars

\* -------------------------------------------- the pure functions alone
\* longest id list handed to stable_shuffle
MaxShuffleLen == 3
\* largest slot handed to slot_to_location
MaxSlot == 1279

ShuffleIds == { 5, 12, 179599, 362382 }
ShuffleSeeds == { DonorSeed("history_war"), BlockSeed("literature_fiction", "Other") }

Calls ==
  { [ op |-> "stable_shuffle", ids |-> ids, seed |-> seed, done |-> FALSE, out |-> << >> ]
      : ids \in UNION { [ 1..n -> ShuffleIds ] : n \in 0..MaxShuffleLen },
        seed \in ShuffleSeeds }
  \cup
  { [ op |-> "slot_to_location", slot |-> slot, done |-> FALSE, out |-> << >> ]
      : slot \in 0..MaxSlot }

InitFn ==
  /\ pc = "fn"
  /\ call \in Calls
  /\ FetchersIdle
  /\ Start(<< >>, [ top_subs |-> 1, min_sub_books |-> 1 ])

ShuffleCall ==
  /\ call.op = "stable_shuffle"
  /\ ~call.done
  /\ call' = [ call EXCEPT !.out = stable_shuffle(call.ids, call.seed), !.done = TRUE ]
  /\ UNCHANGED << args, catalog, pc, line, loaded, planned, fl, working, outputs,
                  fetchers >>

LocateCall ==
  /\ call.op = "slot_to_location"
  /\ ~call.done
  /\ call' = [ call EXCEPT !.out = slot_to_location(call.slot), !.done = TRUE ]
  /\ UNCHANGED << args, catalog, pc, line, loaded, planned, fl, working, outputs,
                  fetchers >>

NextFn == ShuffleCall \/ LocateCall

SpecFn == InitFn /\ [][NextFn]_vars

\* ------------------------------------------- generate_theme_map.py
\* --max-books of the runs explored
MaxThemeBooks == 4
\* fetches the network lets fail in one run of the process
MaxFetchFailures == 1
\* retries after which a failed fetch is re-raised
RETRY_LIMIT == 10

\* what Gutendex serves: pages of results, each book with the theme
\* classify_theme gives its subjects and bookshelves; page i names page
\* i + 1 as "next", the last page names none
ThemePages ==
  << << [ id |-> 1, theme |-> "horror" ], [ id |-> 2, theme |-> "general" ] >>,
     << [ id |-> 0, theme |-> "general" ], [ id |-> 3, theme |-> "poetry" ],
        [ id |-> 9, theme |-> "history" ] >>,
     << [ id |-> 4, theme |-> "general" ], [ id |-> 1, theme |-> "horror" ] >> >>

\* GUTENDEX_BASE, the URL of the first page
GUTENDEX_BASE == 1

\* data.get("next") of the page at url; 0 stands for None
NextOf(pages, url) == IF url < Len(pages) THEN url + 1 ELSE 0

\* --max-pages of the runs explored (0 = all)
MaxPagesArgs == { 0, 2 }

RECURSIVE ThemeResults(_, _, _, _)
\* the loop "for book in results" from position i on: the map and the
\* done counter after it
ThemeResults(results, i, theme_by_id, done) ==
  IF i > Len(results) THEN [ theme_by_id |-> theme_by_id, done |-> done ]
  ELSE LET bid == results[i].id
       IN  IF bid <= 0 \/ bid > MaxThemeBooks
           THEN ThemeResults(results, i + 1, theme_by_id, done)
           ELSE IF theme_by_id[bid] # None
           THEN ThemeResults(results, i + 1, theme_by_id, done)
           ELSE ThemeResults(results, i + 1,
                             [ theme_by_id EXCEPT ![bid] = results[i].theme ],
                             done + 1)

\* all(theme_by_id[bid] is not None for bid in range(1, max_books + 1))
AllMapped(theme_by_id) == \A bid \in 1..MaxThemeBooks : theme_by_id[bid] # None

\* the process starts: the map is read from disk or created empty, the
\* checkpoint is read
ThemeStart ==
  /\ theme_proc.pc = "stopped"
  /\ \E mp \in MaxPagesArgs :
       theme_proc' =
         [ pc |-> "loop",
           crashes |-> theme_proc.crashes,
           max_pages |-> mp,
           theme_by_id |-> IF theme_disk.map.exists THEN theme_disk.map.theme_by_id
                           ELSE [ bid \in 0..MaxThemeBooks |-> None ],
           next_url |-> IF theme_disk.checkpoint.exists
                           /\ theme_disk.checkpoint.next # 0
                        THEN theme_disk.checkpoint.next ELSE GUTENDEX_BASE,
           done |-> IF theme_disk.checkpoint.exists
                    THEN theme_disk.checkpoint.done ELSE 0,
           page |-> 0,
           retries |-> 0,
           failures |-> 0 ]
  /\ UNCHANGED << args, catalog, pc, line, loaded, planned, fl, working, outputs,
                  call, theme_disk, meta_proc, meta_disk >>

\* "while next_url" is left: by next_url = None or by --max-pages
ThemeLeaveLoop ==
  /\ theme_proc.pc = "loop"
  /\ \/ theme_proc.next_url = 0
     \/ /\ theme_proc.max_pages # 0
        /\ theme_proc.page + 1 > theme_proc.max_pages
  /\ theme_proc' = [ theme_proc EXCEPT
                       !.pc = "final_map",
                       !.page = IF theme_proc.next_url = 0 THEN @ ELSE @ + 1 ]
  /\ UNCHANGED << args, catalog, pc, line, loaded, planned, fl, working, outputs,
                  call, theme_disk, meta_proc, meta_disk >>

\* one pass of the loop with a fetch that succeeds: the page's results
\* are mapped in memory, next_url moves to the page's "next"
ThemeFetchPage ==
  /\ theme_proc.pc = "loop"
  /\ theme_proc.next_url # 0
  /\ ~(theme_proc.max_pages # 0 /\ theme_proc.page + 1 > theme_proc.max_pages)
  /\ LET r == ThemeResults(ThemePages[theme_proc.next_url], 1,
                           theme_proc.theme_by_id, theme_proc.done)
     IN  theme_proc' = [ theme_proc EXCEPT
                           !.pc = "save_checkpoint",
                           !.page = @ + 1,
                           !.retries = 0,
                           !.theme_by_id = r.theme_by_id,
                           !.done = r.done,
                           !.next_url = NextOf(ThemePages, theme_proc.next_url) ]
  /\ UNCHANGED << args, catalog, pc, line, loaded, planned, fl, working, outputs,
                  call, theme_disk, meta_proc, meta_disk >>

\* one pass of the loop with a fetch that fails: retry, or re-raise after
\* RETRY_LIMIT retries, which ends the process
ThemeFetchFails ==
  /\ theme_proc.pc = "loop"
  /\ theme_proc.next_url # 0
  /\ ~(theme_proc.max_pages # 0 /\ theme_proc.page + 1 > theme_proc.max_pages)
  /\ theme_proc.failures < MaxFetchFailures
  /\ theme_proc' =
       IF theme_proc.retries + 1 > RETRY_LIMIT
       THEN [ pc |-> "stopped", crashes |-> theme_proc.crashes ]
       ELSE [ theme_proc EXCEPT !.page = @ + 1, !.retries = @ + 1,
                                !.failures = @ + 1 ]
  /\ UNCHANGED << args, catalog, pc, line, loaded, planned, fl, working, outputs,
                  call, theme_disk, meta_proc, meta_disk >>

\* save_json(checkpoint_path, ck)
ThemeSaveCheckpoint ==
  /\ theme_proc.pc = "save_checkpoint"
  /\ theme_disk' = [ theme_disk EXCEPT
                       !.checkpoint = [ exists |-> TRUE,
                                        next |-> theme_proc.next_url,
                                        done |-> theme_proc.done,
                                        page |-> theme_proc.page ] ]
  /\ theme_proc' = [ theme_proc EXCEPT !.pc = "save_map" ]
  /\ UNCHANGED << args, catalog, pc, line, loaded, planned, fl, working, outputs,
                  call, meta_proc, meta_disk >>

\* save_json(map_path, theme_by_id), in the loop or after it
ThemeSaveMap ==
  /\ theme_proc.pc \in { "save_map", "final_map" }
  /\ theme_disk' = [ theme_disk EXCEPT
                       !.map = [ exists |-> TRUE,
                                 theme_by_id |-> theme_proc.theme_by_id ] ]
  /\ theme_proc' = [ theme_proc EXCEPT
                       !.pc = IF @ = "save_map" THEN "save_stats" ELSE "final_stats" ]
  /\ UNCHANGED << args, catalog, pc, line, loaded, planned, fl, working, outputs,
                  call, meta_proc, meta_disk >>

\* save_json(stats_path, ...) in the loop, then "Exit if fully filled" or
\* sleep and the next pass
ThemeSaveStats ==
  /\ theme_proc.pc = "save_stats"
  /\ theme_disk' = [ theme_disk EXCEPT
                       !.stats = [ exists |-> TRUE, done |-> theme_proc.done,
                                   page |-> theme_proc.page ] ]
  /\ theme_proc' =
       IF AllMapped(theme_proc.theme_by_id)
       THEN [ theme_proc EXCEPT !.next_url = 0, !.pc = "final_map" ]
       ELSE [ theme_proc EXCEPT !.pc = "loop" ]
  /\ UNCHANGED << args, catalog, pc, line, loaded, planned, fl, working, outputs,
                  call, meta_proc, meta_disk >>

\* save_json(stats_path, ...) after the loop; return 0
ThemeFinish ==
  /\ theme_proc.pc = "final_stats"
  /\ theme_disk' = [ theme_disk EXCEPT
                       !.stats = [ exists |-> TRUE, done |-> theme_proc.done,
                                   page |-> theme_proc.page ] ]
  /\ theme_proc' = [ pc |-> "stopped", crashes |-> theme_proc.crashes ]
  /\ UNCHANGED << args, catalog, pc, line, loaded, planned, fl, working, outputs,
                  call, meta_proc, meta_disk >>

\* kills of a process the runs explored allow
MaxCrashes == 2

\* the process is killed: what it holds in memory is lost, the files stay
ThemeKill ==
  /\ theme_proc.pc # "stopped"
  /\ theme_proc.crashes < MaxCrashes
  /\ theme_proc' = [ pc |-> "stopped", crashes |-> theme_proc.crashes + 1 ]
  /\ UNCHANGED << args, catalog, pc, line, loaded, planned, fl, working, outputs,
                  call, theme_disk, meta_proc, meta_disk >>

InitTheme ==
  /\ pc = "idle"
  /\ call = NoCall
  /\ FetchersIdle
  /\ Start(<< >>, [ top_subs |-> 1, min_sub_books |-> 1 ])

NextTheme ==
  \/ ThemeStart
  \/ ThemeLeaveLoop
  \/ ThemeFetchPage
  \/ ThemeFetchFails
  \/ ThemeSaveCheckpoint
  \/ ThemeSaveMap
  \/ ThemeSaveStats
  \/ ThemeFinish
  \/ ThemeKill

SpecTheme == InitTheme /\ [][NextTheme]_vars

\* --------------------------------------- generate_book_meta_map.py
\* --max-books of the runs explored
MaxMetaBooks == 3

\* passes of the fetch loop the runs explored count, over all resumes
MaxMetaPage == 8

RECURSIVE MetaResults(_, _, _, _, _)
\* the loop "for book in results" from position i on: the records written
\* to the output stream, the seen set and the done counter after it
MetaResults(results, i, written, seen, done) ==
  IF i > Len(results) THEN [ written |-> written, seen |-> seen, done |-> done ]
  ELSE LET bid == results[i].id
       IN  IF bid <= 0 \/ bid > MaxMetaBooks
           THEN MetaResults(results, i + 1, written, seen, done)
           ELSE IF bid \in seen
           THEN MetaResults(results, i + 1, written, seen, done)
           ELSE MetaResults(results, i + 1, Append(written, bid),
                            seen \cup { bid }, done + 1)

\* the process starts: checkpoint, seen ids and stats are read, the JSONL
\* file is opened for appending
MetaStart ==
  /\ meta_proc.pc = "stopped"
  /\ meta_proc' =
       [ pc |-> "loop",
         crashes |-> meta_proc.crashes,
         next_url |-> IF meta_disk.checkpoint.exists /\ meta_disk.checkpoint.next # 0
                      THEN meta_disk.checkpoint.next ELSE GUTENDEX_BASE,
         seen |-> IF meta_disk.seen.exists THEN meta_disk.seen.ids ELSE { },
         done |-> IF meta_disk.stats.exists /\ meta_disk.stats.done # 0
                  THEN meta_disk.stats.done
                  ELSE IF meta_disk.checkpoint.exists THEN meta_disk.checkpoint.done
                  ELSE 0,
         page |-> IF meta_disk.checkpoint.exists THEN meta_disk.checkpoint.page ELSE 0,
         retries |-> 0,
         failures |-> 0,
         buffered |-> << >> ]
  /\ UNCHANGED << args, catalog, pc, line, loaded, planned, fl, working, outputs,
                  call, theme_proc, theme_disk, meta_disk >>

\* "while next_url" ends: the with-block closes the file, which writes
\* out what is buffered; return 0
MetaExit ==
  /\ meta_proc.pc = "loop"
  /\ meta_proc.next_url = 0
  /\ meta_disk' = [ meta_disk EXCEPT !.jsonl = @ \o meta_proc.buffered ]
  /\ meta_proc' = [ pc |-> "stopped", crashes |-> meta_proc.crashes ]
  /\ UNCHANGED << args, catalog, pc, line, loaded, planned, fl, working, outputs,
                  call, theme_proc, theme_disk >>

\* one pass of the loop with a fetch that succeeds: the unseen in-range
\* books of the page are written to the stream
MetaFetchPage ==
  /\ meta_proc.pc = "loop"
  /\ meta_proc.next_url # 0
  /\ meta_proc.page < MaxMetaPage
  /\ LET r == MetaResults(ThemePages[meta_proc.next_url], 1, meta_proc.buffered,
                          meta_proc.seen, meta_proc.done)
     IN  meta_proc' = [ meta_proc EXCEPT
                          !.pc = "save_checkpoint",
                          !.page = @ + 1,
                          !.retries = 0,
                          !.buffered = r.written,
                          !.seen = r.seen,
                          !.done = r.done,
                          !.next_url = NextOf(ThemePages, meta_proc.next_url) ]
  /\ UNCHANGED << args, catalog, pc, line, loaded, planned, fl, working, outputs,
                  call, theme_proc, theme_disk, meta_disk >>

\* one pass of the loop with a fetch that fails: wait and retry
MetaFetchFails ==
  /\ meta_proc.pc = "loop"
  /\ meta_proc.next_url # 0
  /\ meta_proc.page < MaxMetaPage
  /\ meta_proc.failures < MaxFetchFailures
  /\ meta_proc' = [ meta_proc EXCEPT !.page = @ + 1, !.retries = @ + 1,
                                     !.failures = @ + 1 ]
  /\ UNCHANGED << args, catalog, pc, line, loaded, planned, fl, working, outputs,
                  call, theme_proc, theme_disk, meta_disk >>

\* save_json(checkpoint_path, ck)
MetaSaveCheckpoint ==
  /\ meta_proc.pc = "save_checkpoint"
  /\ meta_disk' = [ meta_disk EXCEPT
                      !.checkpoint = [ exists |-> TRUE, next |-> meta_proc.next_url,
                                       done |-> meta_proc.done,
                                       page |-> meta_proc.page ] ]
  /\ meta_proc' = [ meta_proc EXCEPT !.pc = "save_stats" ]
  /\ UNCHANGED << args, catalog, pc, line, loaded, planned, fl, working, outputs,
                  call, theme_proc, theme_disk >>

\* save_json(stats_path, ...)
MetaSaveStats ==
  /\ meta_proc.pc = "save_stats"
  /\ meta_disk' = [ meta_disk EXCEPT
                      !.stats = [ exists |-> TRUE, done |-> meta_proc.done,
                                  page |-> meta_proc.page ] ]
  /\ meta_proc' = [ meta_proc EXCEPT !.pc = "save_seen" ]
  /\ UNCHANGED << args, catalog, pc, line, loaded, planned, fl, working, outputs,
                  call, theme_proc, theme_disk >>

\* save_json(seen_path, sorted(seen)); sleep; next pass
MetaSaveSeen ==
  /\ meta_proc.pc = "save_seen"
  /\ meta_disk' = [ meta_disk EXCEPT
                      !.seen = [ exists |-> TRUE, ids |-> meta_proc.seen ] ]
  /\ meta_proc' = [ meta_proc EXCEPT !.pc = "loop" ]
  /\ UNCHANGED << args, catalog, pc, line, loaded, planned, fl, working, outputs,
                  call, theme_proc, theme_disk >>

\* the stream's buffer is written out to the file (it is full)
MetaFlush ==
  /\ meta_proc.pc # "stopped"
  /\ meta_proc.buffered # << >>
  /\ meta_disk' = [ meta_disk EXCEPT !.jsonl = @ \o meta_proc.buffered ]
  /\ meta_proc' = [ meta_proc EXCEPT !.buffered = << >> ]
  /\ UNCHANGED << args, catalog, pc, line, loaded, planned, fl, working, outputs,
                  call, theme_proc, theme_disk >>

\* the process is killed: memory and the stream's buffer are lost
MetaKill ==
  /\ meta_proc.pc # "stopped"
  /\ meta_proc.crashes < MaxCrashes
  /\ meta_proc' = [ pc |-> "stopped", crashes |-> meta_proc.crashes + 1 ]
  /\ UNCHANGED << args, catalog, pc, line, loaded, planned, fl, working, outputs,
                  call, theme_proc, theme_disk, meta_disk >>

\* an exception no handler catches (an interrupt, an error other than the
\* three fetch errors) ends the process: leaving the with-block closes
\* the file, which writes out what is buffered
MetaRaise ==
  /\ meta_proc.pc # "stopped"
  /\ meta_proc.crashes < MaxCrashes
  /\ meta_disk' = [ meta_disk EXCEPT !.jsonl = @ \o meta_proc.buffered ]
  /\ meta_proc' = [ pc |-> "stopped", crashes |-> meta_proc.crashes + 1 ]
  /\ UNCHANGED << args, catalog, pc, line, loaded, planned, fl, working, outputs,
                  call, theme_proc, theme_disk >>

InitMeta ==
  /\ pc = "idle"
  /\ call = NoCall
  /\ FetchersIdle
  /\ Start(<< >>, [ top_subs |-> 1, min_sub_books |-> 1 ])

NextMeta ==
  \/ MetaStart
  \/ MetaExit
  \/ MetaFetchPage
  \/ MetaFetchFails
  \/ MetaSaveCheckpoint
  \/ MetaSaveStats
  \/ MetaSaveSeen
  \/ MetaFlush
  \/ MetaKill
  \/ MetaRaise

SpecMeta == InitMeta /\ [][NextMeta]_vars

\* ------------------------------------------------------------- claims
Done == pc = "done"

\* the book ids of the catalog
CatalogIds == { catalog[i].id : i \in { j \in 1..Len(catalog) : catalog[j].id > 0 } }

\* position of a floor in FLOORS
FloorIndex(f) == CHOOSE i \in 1..Len(FLOORS) : FLOORS[i] = f

\* the book's subcategory on its home floor: its own label when that is
\* official there, else "Other"
HomeSub(bid) ==
  LET subs == official_subs[floor_by_book[bid]]
  IN  IF \E i \in 1..Len(subs) : subs[i] = sub_by_book[bid]
      THEN sub_by_book[bid] ELSE "Other"

\* the slots of floor f that hold book bid
SlotsOf(f, bid) ==
  { j \in 1..Len(slots_out[f].bookIdBySlot) : slots_out[f].bookIdBySlot[j] = bid }

\* C1: after generation every book of the catalog has a primary location,
\* on its home floor, under its own subcategory there (never a
\* RELATED:<floor> filler tag).
C1_PrimaryOnHomeFloor ==
  Done =>
    \A bid \in CatalogIds :
      /\ Digits(bid) \in DOMAIN primary_loc
      /\ primary_loc[Digits(bid)].floorId = floor_by_book[bid]
      /\ primary_loc[Digits(bid)].subId = HomeSub(bid)
      /\ ~IsRelated(primary_loc[Digits(bid)].subId)

\* C2: a fill loop that has slack while every donor of the chain has no
\* book ends the floor's generation with a fatal error.
C2_ExhaustedChainIsFatal ==
  [][ (pc = "fill" /\ need > 0 /\ ~SomeDonor(ChainOf(FLOORS[fl])))
        => pc' = "fatal" ]_vars

\* C3: every floor laid out has the least room count >= 1 that holds its
\* books, capacity = roomCount * BOOKS_PER_ROOM, and both slot arrays of
\* exactly that length with a catalog book id in every position; when
\* generation completes that is every floor.
C3_CapacityExact ==
  LET ids == CatalogIds
  IN  /\ Done => DOMAIN slots_out = FloorIds
      /\ \A f \in DOMAIN slots_out :
           LET rec == floors_out[FloorIndex(f)]
               sl == slots_out[f]
           IN  /\ rec.bookCount = Len(floor_books[f])
               /\ rec.roomCount >= 1
               /\ rec.roomCount * BOOKS_PER_ROOM >= rec.bookCount
               /\ (rec.roomCount = 1
                     \/ (rec.roomCount - 1) * BOOKS_PER_ROOM < rec.bookCount)
               /\ rec.capacity = rec.roomCount * BOOKS_PER_ROOM
               /\ sl.capacity = rec.capacity
               /\ Len(sl.bookIdBySlot) = rec.capacity
               /\ Len(sl.subIdBySlot) = rec.capacity
               /\ { sl.bookIdBySlot[j] : j \in 1..Len(sl.bookIdBySlot) } \subseteq ids

\* C3 witness: generation completed with an empty floor and a floor of
\* more than one room
C3_Witness ==
  /\ Done
  /\ \E i \in 1..Len(floors_out) : floors_out[i].bookCount = 0
  /\ \E i \in 1..Len(floors_out) : floors_out[i].roomCount > 1

\* the orderings of a list
Orderings(ids) ==
  { [ i \in 1..Len(ids) |-> ids[p[i]] ] :
      p \in { q \in [ 1..Len(ids) -> 1..Len(ids) ] :
                \A a, b \in 1..Len(ids) : a # b => q[a] # q[b] } }

\* C4: stable_shuffle gives the same sequence for every ordering of the
\* same ids, and ids with equal keys come out in ascending id order.
C4_ShuffleOrderIndependent ==
  (call.op = "stable_shuffle" /\ call.done) =>
    /\ \A p \in Orderings(call.ids) : stable_shuffle(p, call.seed) = call.out
    /\ \A i, j \in 1..Len(call.out) :
         (/\ i < j
          /\ call.out[i] # call.out[j]
          /\ key(call.out[i], call.seed) = key(call.out[j], call.seed))
           => call.out[i] < call.out[j]

\* C5: each book occupies exactly one slot of its home floor.
C5_OneHomeSlot ==
  \A f \in DOMAIN slots_out :
    \A i \in 1..Len(floor_books[f]) :
      Cardinality(SlotsOf(f, floor_books[f][i])) = 1

\* place of a subcategory in the floor's block order: the official ones in
\* order, "Other" last
BlockPlace(f, sub) ==
  IF sub = "Other" THEN Len(official_subs[f]) + 1
  ELSE CHOOSE i \in 1..Len(official_subs[f]) : official_subs[f][i] = sub

\* C6: in subIdBySlot the non-RELATED subcategories are single runs, in
\* the official order with "Other" last, all before the first RELATED slot.
C6_ContiguousRuns ==
  \A f \in DOMAIN slots_out :
    LET subs == slots_out[f].subIdBySlot
    IN  \A j \in 1..(Len(subs) - 1) :
          /\ IsRelated(subs[j]) => IsRelated(subs[j + 1])
          /\ (~IsRelated(subs[j + 1]) /\ subs[j] # subs[j + 1])
               => BlockPlace(f, subs[j]) < BlockPlace(f, subs[j + 1])

\* the tags of one shelf, in the order of the room's list
TagsOfShelf(room, wall, shelf) ==
  SelectSeq(room_tags[room], LAMBDA t : t.wall = wall /\ t.shelf = shelf)

Walls == 0..(WALLS_PER_ROOM - 1)

Shelves == 0..(SHELVES_PER_WALL - 1)

Volumes == 0..(BOOKS_PER_SHELF - 1)

\* C7: every shelf of every tagged room has at least one tag, the first at
\* volStart 0, volStart strictly ascending, consecutive tags with different
\* subId; when generation completes the tagged rooms are 0..roomsTotal-1.
C7_ShelfTagsWellFormed ==
  /\ Done => DOMAIN room_tags = 0..(rooms_total - 1)
  /\ \A room \in DOMAIN room_tags :
       \A wall \in Walls :
         \A shelf \in Shelves :
           LET t == TagsOfShelf(room, wall, shelf)
           IN  /\ Len(t) >= 1
               /\ t[1].volStart = 0
               /\ \A i \in 1..(Len(t) - 1) :
                    /\ t[i].volStart < t[i + 1].volStart
                    /\ t[i].subId # t[i + 1].subId

\* C7 witness: generation completed and some shelf changes subcategory
\* part-way, so it carries more than one tag
C7_Witness ==
  /\ Done
  /\ \E room \in DOMAIN room_tags :
       \E wall \in Walls :
         \E shelf \in Shelves : Len(TagsOfShelf(room, wall, shelf)) >= 2

\* the floor that owns a room
OwnerOf(room) ==
  CHOOSE f \in FloorIds :
    /\ floor_stats[f].roomStart <= room
    /\ room < floor_stats[f].roomStart + floor_stats[f].roomCount

\* C8: on every shelf of every tagged room, the tag in force at each of the
\* 32 volumes (the last tag whose volStart is at or before the volume) has
\* the subId the owning floor's subIdBySlot holds at that volume's slot.
C8_TagsLossless ==
  \A room \in DOMAIN room_tags :
    LET f == OwnerOf(room)
        sub_ids == slots_out[f].subIdBySlot
        base == (room - floor_stats[f].roomStart) * BOOKS_PER_ROOM
    IN  \A wall \in Walls :
          \A shelf \in Shelves :
            LET t == TagsOfShelf(room, wall, shelf)
            IN  \A vol \in Volumes :
                  \E i \in 1..Len(t) :
                    /\ t[i].volStart <= vol
                    /\ (i = Len(t) \/ vol < t[i + 1].volStart)
                    /\ t[i].subId = sub_ids[SlotOf(base, wall, shelf, vol) + 1]

\* C8 witness: generation completed, and the second room of a floor has a
\* tag that starts after volume 0
C8_Witness ==
  /\ Done
  /\ \E room \in DOMAIN room_tags :
       /\ room > floor_stats[OwnerOf(room)].roomStart
       /\ \E i \in 1..Len(room_tags[room]) : room_tags[room][i].volStart > 0

\* slot (from 0) is where its book is first seen: no earlier slot of floor
\* f and no earlier floor holds the same id
FirstSeenAt(f, slot) ==
  LET b == slots_out[f].bookIdBySlot[slot + 1]
  IN  /\ \A j \in 1..slot : slots_out[f].bookIdBySlot[j] # b
      /\ \A g \in DOMAIN slots_out :
           FloorIndex(g) < FloorIndex(f) =>
             \A j \in 1..Len(slots_out[g].bookIdBySlot) :
               slots_out[g].bookIdBySlot[j] # b

\* C9: a book first seen at slot 532 of a floor has primary location
\* room = roomStart, wall 3, shelf 1, volume 20 on that floor.
C9_Slot532Location ==
  \A f \in DOMAIN slots_out :
    FirstSeenAt(f, 532) =>
      LET p == primary_loc[Digits(slots_out[f].bookIdBySlot[533])]
      IN  /\ p.floorId = f
          /\ p.room = floor_stats[f].roomStart
          /\ p.wall = 3
          /\ p.shelf = 1
          /\ p.volume = 20

\* C9 witness: a floor laid out whose slot 532 is the first occurrence of
\* its book
C9_Witness ==
  \E f \in DOMAIN slots_out :
    /\ FirstSeenAt(f, 532)
    /\ primary_loc[Digits(slots_out[f].bookIdBySlot[533])].volume = 20

\* C9 as the text states it: the book at slot 532 of a floor has primary
\* location room = roomStart, wall 2, shelf 2, volume 17.
C9_AsStated ==
  \A f \in DOMAIN slots_out :
    LET p == primary_loc[Digits(slots_out[f].bookIdBySlot[533])]
    IN  /\ p.room = floor_stats[f].roomStart
        /\ p.wall = 2
        /\ p.shelf = 2
        /\ p.volume = 17

\* the slot (from 0) on its floor that a location names
SlotNamed(p) ==
  SlotOf((p.room - floor_stats[p.floorId].roomStart) * BOOKS_PER_ROOM,
         p.wall, p.shelf, p.volume)

\* C10: every entry of the primary-location table is the decoded location
\* of an occurrence of its book, and no occurrence of the book on the floors
\* laid out comes before it in floor order, then slot order.
C10_FirstOccurrenceWins ==
  /\ \A k \in DOMAIN primary_loc :
       LET p == primary_loc[k]
           s == SlotNamed(p)
       IN  /\ p.floorId \in DOMAIN slots_out
           /\ s \in 0..(slots_out[p.floorId].capacity - 1)
           /\ Digits(slots_out[p.floorId].bookIdBySlot[s + 1]) = k
           /\ p = PrimaryEntry(p.floorId, s, slots_out[p.floorId].subIdBySlot[s + 1])
  /\ \A f \in DOMAIN slots_out :
       \A j \in 1..Len(slots_out[f].bookIdBySlot) :
         LET k == Digits(slots_out[f].bookIdBySlot[j])
         IN  /\ k \in DOMAIN primary_loc
             /\ \/ FloorIndex(primary_loc[k].floorId) < FloorIndex(f)
                \/ /\ primary_loc[k].floorId = f
                   /\ SlotNamed(primary_loc[k]) <= j - 1

\* C10 witness: generation completed and a book occurs again on a floor
\* after the one of its primary location
C10_Witness ==
  /\ Done
  /\ \E f \in DOMAIN slots_out :
       \E j \in 1..Len(slots_out[f].bookIdBySlot) :
         LET k == Digits(slots_out[f].bookIdBySlot[j])
         IN  /\ k \in DOMAIN primary_loc
             /\ FloorIndex(primary_loc[k].floorId) < FloorIndex(f)

\* the rooms of the floor record at position i
RoomRange(i) ==
  floors_out[i].roomStart..(floors_out[i].roomStart + floors_out[i].roomCount - 1)

RECURSIVE RoomCountSum(_)
\* sum of roomCount over the first i floor records
RoomCountSum(i) == IF i = 0 THEN 0 ELSE floors_out[i].roomCount + RoomCountSum(i - 1)

\* C11: once rooms are planned the floor records are in FLOORS order, the
\* first starts at room 0, each next one starts where the previous ends,
\* the ranges are pairwise disjoint and cover exactly 0..roomsTotal-1, and
\* roomsTotal is the sum of the room counts.
C11_RoomRangesConcatenate ==
  floors_out # << >> =>
    /\ Len(floors_out) = Len(FLOORS)
    /\ \A i \in 1..Len(FLOORS) : floors_out[i].id = FLOORS[i]
    /\ floors_out[1].roomStart = 0
    /\ \A i \in 1..(Len(floors_out) - 1) :
         floors_out[i + 1].roomStart = floors_out[i].roomStart + floors_out[i].roomCount
    /\ \A i, j \in 1..Len(floors_out) : i # j => RoomRange(i) \cap RoomRange(j) = { }
    /\ UNION { RoomRange(i) : i \in 1..Len(floors_out) } = 0..(rooms_total - 1)
    /\ rooms_total = RoomCountSum(Len(floors_out))

\* C11 witness: rooms are planned and a floor of two rooms is followed by
\* another floor
C11_Witness ==
  /\ floors_out # << >>
  /\ \E i \in 1..(Len(floors_out) - 1) :
       /\ floors_out[i].roomCount = 2
       /\ floors_out[i + 1].roomStart = floors_out[i].roomStart + 2

\* the raw labels of floor f whose count reaches --min-sub-books
Supported(f) ==
  { l \in DOMAIN sub_counts_by_floor[f] :
      sub_counts_by_floor[f][l] >= args.min_sub_books }

\* place of a supported label by descending count, then ascending label
PlaceOf(f, l) ==
  1 + Cardinality({ m \in Supported(f) : ItemBefore(sub_counts_by_floor[f], m, l) })

\* the first K supported labels in that order
FirstK(f, K) ==
  LET n == IF Cardinality(Supported(f)) < K THEN Cardinality(Supported(f)) ELSE K
  IN  [ i \in 1..n |-> CHOOSE l \in Supported(f) : PlaceOf(f, l) = i ]

\* C12: on every floor the official subcategories are the first
\* --top-subs labels among those with at least --min-sub-books books, by
\* descending count then ascending label: never more than --top-subs of
\* them, none below the threshold.
C12_OfficialTopK ==
  \A f \in DOMAIN official_subs :
    /\ official_subs[f] = FirstK(f, args.top_subs)
    /\ Len(official_subs[f]) <= args.top_subs
    /\ \A i \in 1..Len(official_subs[f]) : official_subs[f][i] \in Supported(f)

\* the record carries a positive numeric id
UsableId(book) == book.idform = "int" /\ book.id > 0

\* the ids on the floors' book lists
LoadedIds ==
  UNION { { floor_books[f][i] : i \in 1..Len(floor_books[f]) } : f \in FloorIds }

RECURSIVE LoadedCount(_)
\* number of entries on the book lists of the first i floors
LoadedCount(i) == IF i = 0 THEN 0 ELSE Len(floor_books[FLOORS[i]]) + LoadedCount(i - 1)

\* C13: the run never aborts on a record, and of the records read so far
\* exactly those with a positive numeric id are on the floors' book lists
\* (records with a missing, non-numeric, zero or negative id are on none).
C13_BadIdsSkipped ==
  /\ pc # "abort"
  /\ LET ids == LoadedIds
     IN  /\ \A i \in 1..line : UsableId(catalog[i]) => catalog[i].id \in ids
         /\ LoadedCount(Len(FLOORS)) =
              Cardinality({ i \in 1..line : UsableId(catalog[i]) })

\* the ids listed as subcategories in floor f's record of the floor index
ListedSubIds(f) ==
  LET subcats == floors_out[FloorIndex(f)].subcategories
  IN  { subcats[i].id : i \in 1..Len(subcats) }

\* C14: every subId in a floor's subIdBySlot is the id of an entry of that
\* floor's subcategories list in the floor index (official labels, "Other"
\* and the RELATED buckets).
C14_SlotSubsListed ==
  \A f \in DOMAIN slots_out :
    LET listed == ListedSubIds(f)
        subs == slots_out[f].subIdBySlot
    IN  { subs[j] : j \in 1..Len(subs) } \subseteq listed

\* the donors of floor f's chain that have books, in chain order
Givers(f) == SelectSeq(ChainOf(f), LAMBDA d : donor_pool[d] # << >>)

\* number of slots of floor f that are not filler
HomeSlots(f) ==
  LET subs == slots_out[f].subIdBySlot
      tags == { RelatedTag(d) : d \in FloorIds }
  IN  Cardinality({ j \in 1..Len(subs) : subs[j] \notin tags })

\* C15: on every floor laid out, the t-th filler slot (t = 0, 1, ...) is
\* given by the donors of the chain that have books, taken cyclically in
\* chain order from the first (empty donors use up no slot), and holds that
\* donor's pool entry at (number of earlier draws from it on this floor)
\* modulo the pool's size, counted from 0 on every floor.
C15_RoundRobinFill ==
  \A f \in DOMAIN slots_out :
    LET sl == slots_out[f]
        n0 == HomeSlots(f)
        g == Givers(f)
    IN  \A j \in (n0 + 1)..Len(sl.bookIdBySlot) :
          LET t == j - n0 - 1
              d == g[(t % Len(g)) + 1]
              k == t \div Len(g)
          IN  /\ sl.subIdBySlot[j] = RelatedTag(d)
              /\ sl.bookIdBySlot[j] = donor_pool[d][(k % Len(donor_pool[d])) + 1]

\* C15 witness: a floor laid out whose chain lists a donor without books
\* next to one with books, and more filler slots than that donor's pool
\* holds, so the empty donor is skipped and the pool wraps
C15_Witness ==
  \E f \in DOMAIN slots_out :
    /\ Len(Givers(f)) = 1
    /\ Len(ChainOf(f)) = 2
    /\ Len(donor_pool[Givers(f)[1]]) >= 2
    /\ Len(slots_out[f].bookIdBySlot) - HomeSlots(f) > Len(donor_pool[Givers(f)[1]])

\* the RELATED tags of the donors of floor f's chain other than f itself
ChainTags(f) ==
  { RelatedTag(ChainOf(f)[i]) :
      i \in { k \in 1..Len(ChainOf(f)) : ChainOf(f)[k] # f } }

\* the donor floor a RELATED tag names
DonorOf(sub) == CHOOSE d \in FloorIds : sub = RelatedTag(d)

\* C16: for catalogs with distinct ids, on every floor laid out a slot
\* tagged RELATED:<d> has d in the floor's chain, d other than the floor,
\* and holds a book whose home floor is d; every other slot holds a book
\* whose home floor is this floor, tagged with the book's official
\* subcategory or "Other"; and every book of the floor has such a slot.
C16_RelatedIffBorrowed ==
  \A f \in DOMAIN slots_out :
    LET sl == slots_out[f]
        all == { RelatedTag(d) : d \in FloorIds }
        chained == ChainTags(f)
        home == { j \in 1..Len(sl.subIdBySlot) : sl.subIdBySlot[j] \notin all }
        here == { sl.bookIdBySlot[j] : j \in home }
    IN  /\ \A j \in 1..Len(sl.subIdBySlot) :
             IF j \in home
             THEN /\ floor_by_book[sl.bookIdBySlot[j]] = f
                  /\ sl.subIdBySlot[j] = HomeSub(sl.bookIdBySlot[j])
             ELSE /\ sl.subIdBySlot[j] \in chained
                  /\ floor_by_book[sl.bookIdBySlot[j]] = DonorOf(sl.subIdBySlot[j])
        /\ \A i \in 1..Len(floor_books[f]) : floor_books[f][i] \in here

\* C16 witness: generation completed with a floor that holds its own
\* books and filler, and a floor whose filler comes from two donors
C16_Witness ==
  /\ Done
  /\ \E f \in DOMAIN slots_out :
       /\ floor_books[f] # << >>
       /\ Len(floor_books[f]) < slots_out[f].capacity
  /\ \E f \in DOMAIN slots_out :
       \E i, j \in 1..3 :
         /\ slots_out[f].subIdBySlot[i] \in ChainTags(f)
         /\ slots_out[f].subIdBySlot[j] \in ChainTags(f)
         /\ slots_out[f].subIdBySlot[i] # slots_out[f].subIdBySlot[j]

\* C17: the location slot_to_location gives for a slot has wall in 0..3,
\* shelf in 0..4 and volume in 0..31, and the tag scan's slot formula
\* applied to it (room offset * 640 + wall * 160 + shelf * 32 + volume)
\* gives the slot back.
C17_LocationInvertsSlot ==
  (call.op = "slot_to_location" /\ call.done) =>
    LET r == call.out[1]
        w == call.out[2]
        h == call.out[3]
        v == call.out[4]
    IN  /\ r >= 0
        /\ w \in 0..3
        /\ h \in 0..4
        /\ v \in 0..31
        /\ r * 640 + w * 160 + h * 32 + v = call.slot
        /\ SlotOf(r * BOOKS_PER_ROOM, w, h, v) = call.slot

\* C17 witness: the last slot of a second room has been located, at the
\* top of every range
C17_Witness ==
  /\ call.op = "slot_to_location"
  /\ call.done
  /\ call.slot = 2 * BOOKS_PER_ROOM - 1
  /\ call.out = << 1, 3, 4, 31 >>

\* the page the checkpoint on disk resumes from; past the last page when
\* it names no next page
ThemeResumePage ==
  IF ~theme_disk.checkpoint.exists THEN GUTENDEX_BASE
  ELSE IF theme_disk.checkpoint.next = 0 THEN Len(ThemePages) + 1
  ELSE theme_disk.checkpoint.next

\* a theme for book bid is in the map on disk
ThemeOnDisk(bid) ==
  theme_disk.map.exists /\ theme_disk.map.theme_by_id[bid] # None

\* C18: whenever the checkpoint on disk resumes past page k, the map on
\* disk holds a theme for every in-range book of pages 1..k.
C18_CheckpointNeverAheadOfMap ==
  \A k \in 1..Len(ThemePages) :
    ThemeResumePage > k =>
      \A i \in 1..Len(ThemePages[k]) :
        ThemePages[k][i].id \in 1..MaxThemeBooks => ThemeOnDisk(ThemePages[k][i].id)

\* C19: no book id is on two lines of bookMetaById.v1.jsonl, whatever
\* crashes and resumes (without --reset) came before.
C19_AppendedAtMostOnce ==
  \A i, j \in 1..Len(meta_disk.jsonl) :
    i # j => meta_disk.jsonl[i] # meta_disk.jsonl[j]
====
